---- MODULE Spec2Model ----
(***************************************************************************)
(* A model of pdf_autofiller.py: the field classifier                       *)
(* (get_field_type_from_ai), the value synthesizer (get_data_from_ai), the  *)
(* form writer (fill_pdf_form) and the orchestration in main.               *)
(*                                                                          *)
(* Python strings are sequences of one-character strings, so that strip,    *)
(* lower, replace, slicing and substring search are computed as Python      *)
(* computes them.                                                           *)
(***************************************************************************)
EXTENDS Integers, Sequences, FiniteSets, TLC

VARIABLES
    pc,             \* position of main
    config_file,    \* what is at the --config path
    fs,             \* the file system: path -> PDF content, or Missing
    input_file,     \* args.input_file
    output_prefix,  \* args.output_prefix
    output_number,  \* args.output_number
    fields,         \* keys of reader.get_fields(), in dict order
    i,              \* loop variable of "for i in range(1, output_number + 1)"
    k,              \* index in fields of the field being processed
    field_type,     \* value returned by the last get_field_type_from_ai call
    data_to_fill,   \* the mapping being built for document i
    last_call,      \* arguments of the most recent generation-service call
    n_classify,     \* classify calls made, per <<document, field index>>
    n_synthesize,   \* synthesize calls made, per <<document, field index>>
    written,        \* output file names written so far, in order
    n_render,       \* fill_pdf_form invocations so far
    template_pdf,   \* what the last fill_pdf_form call loaded with pdfrw.PdfReader
    doc_types,      \* for the current document: field name -> detected type
    fs0,            \* the file system when the run started
    uIn,            \* unit harness: the call to make
    uOut            \* unit harness: its result, or Pending

vars == << pc, config_file, fs, input_file, output_prefix, output_number, fields,
           i, k, field_type, data_to_fill, last_call, n_classify, n_synthesize,
           written, n_render, template_pdf, doc_types, fs0, uIn, uOut >>

mainVars == << pc, config_file, fs, input_file, output_prefix, output_number, fields,
               i, k, field_type, data_to_fill, last_call, n_classify, n_synthesize,
               written, n_render, template_pdf, doc_types, fs0 >>

-----------------------------------------------------------------------------
(* Bounds *)

MaxFields == 2          \* fields of the largest input form
MaxOutputNumber == 2    \* largest --output-number
MaxPages == 1           \* pages of the largest template given to fill_pdf_form alone
MaxAnnots == 2          \* annotations on a page of such a template

-----------------------------------------------------------------------------
(* Python string operations *)

Upper == {"A","B","C","D","E","F","G","H","I","J","K","L","M",
          "N","O","P","Q","R","S","T","U","V","W","X","Y","Z"}

LowerOf == [c \in Upper |->
    CASE c = "A" -> "a" [] c = "B" -> "b" [] c = "C" -> "c" [] c = "D" -> "d"
      [] c = "E" -> "e" [] c = "F" -> "f" [] c = "G" -> "g" [] c = "H" -> "h"
      [] c = "I" -> "i" [] c = "J" -> "j" [] c = "K" -> "k" [] c = "L" -> "l"
      [] c = "M" -> "m" [] c = "N" -> "n" [] c = "O" -> "o" [] c = "P" -> "p"
      [] c = "Q" -> "q" [] c = "R" -> "r" [] c = "S" -> "s" [] c = "T" -> "t"
      [] c = "U" -> "u" [] c = "V" -> "v" [] c = "W" -> "w" [] c = "X" -> "x"
      [] c = "Y" -> "y" [] c = "Z" -> "z"]

\* str.lower()
lower(s) == [j \in 1..Len(s) |-> IF s[j] \in Upper THEN LowerOf[s[j]] ELSE s[j]]

\* str.replace(old, new) for single characters
replace(s, old, new) == [j \in 1..Len(s) |-> IF s[j] = old THEN new ELSE s[j]]

Whitespace == {" ", "\n", "\t"}

RECURSIVE lstrip(_, _)
lstrip(s, chars) ==
    IF s # << >> /\ Head(s) \in chars THEN lstrip(Tail(s), chars) ELSE s

RECURSIVE rstrip(_, _)
rstrip(s, chars) ==
    IF s # << >> /\ s[Len(s)] \in chars
    THEN rstrip(SubSeq(s, 1, Len(s) - 1), chars)
    ELSE s

\* str.strip(chars); str.strip() is strip(s, Whitespace)
strip(s, chars) == rstrip(lstrip(s, chars), chars)

\* "sub in s"
contains(s, sub) ==
    \E j \in 1..(Len(s) - Len(sub) + 1) : SubSeq(s, j, j + Len(sub) - 1) = sub

\* s[1:-1]
slice_1_m1(s) == IF Len(s) < 2 THEN << >> ELSE SubSeq(s, 2, Len(s) - 1)

-----------------------------------------------------------------------------
(* The category vocabulary *)

field_categories ==
    << <<"n","a","m","e">>,
       <<"f","i","r","s","t","_","n","a","m","e">>,
       <<"l","a","s","t","_","n","a","m","e">>,
       <<"p","h","o","n","e","_","n","u","m","b","e","r">>,
       <<"e","m","a","i","l">>,
       <<"a","d","d","r","e","s","s">>,
       <<"c","i","t","y">>,
       <<"s","t","a","t","e">>,
       <<"z","i","p","_","c","o","d","e">>,
       <<"c","o","u","n","t","r","y">>,
       <<"c","o","m","p","a","n","y">>,
       <<"j","o","b","_","t","i","t","l","e">>,
       <<"d","a","t","e">>,
       <<"v","e","h","i","c","l","e","_","y","e","a","r">>,
       <<"v","e","h","i","c","l","e","_","m","a","k","e">>,
       <<"v","e","h","i","c","l","e","_","m","o","d","e","l">>,
       <<"v","i","n">>,
       <<"l","i","c","e","n","s","e","_","p","l","a","t","e">>,
       <<"c","u","r","r","e","n","c","y","_","a","m","o","u","n","t">>,
       <<"b","o","o","l","e","a","n">>,
       <<"t","e","x","t">> >>

Categories == {field_categories[j] : j \in 1..Len(field_categories)}

TEXT == <<"t","e","x","t">>
BOOLEAN_ == <<"b","o","o","l","e","a","n">>

-----------------------------------------------------------------------------
(* The generation service: client.chat.completions.create either raises, or *)
(* returns a first choice whose message content is a string or None.        *)

ServiceError == [kind |-> "error", content |-> << >>]
NoneContent == [kind |-> "none", content |-> << >>]
Reply(s) == [kind |-> "text", content |-> s]

-----------------------------------------------------------------------------
(* Python values held by data_to_fill: a bool or a str *)

Bool(b) == [type |-> "bool", b |-> b, s |-> << >>]
Str(s) == [type |-> "str", b |-> FALSE, s |-> s]

-----------------------------------------------------------------------------
(* get_field_type_from_ai *)

get_field_type_from_ai(field_name, outcome) ==
    IF outcome.kind = "text"
    THEN LET category == replace(lower(strip(outcome.content, Whitespace)), "_", " ")
         IN  IF replace(category, " ", "_") \in Categories THEN category ELSE TEXT
    ELSE TEXT   \* except Exception: an API error, or None.strip()

(* get_data_from_ai *)

get_data_from_ai(field_name, ftype, outcome) ==
    IF outcome.kind = "text"
    THEN LET data_value == strip(outcome.content, {" ", "\""})
         IN  IF ftype = BOOLEAN_
             THEN Bool(contains(lower(data_value), <<"y","e","s">>))
             ELSE Str(data_value)
    ELSE Str(<< >>)   \* except Exception: return ""

-----------------------------------------------------------------------------
(* PDF objects as pdfrw presents them *)

NoObj == [kind |-> "absent", s |-> << >>]
PdfName(s) == [kind |-> "name", s |-> s]       \* pdfrw.PdfName(s)
PdfStr(s) == [kind |-> "str", s |-> s]         \* a string entry

Yes == <<"Y","e","s">>
Off == <<"O","f","f">>

Annotation(subtype, t, v, as) == [Subtype |-> subtype, T |-> t, V |-> v, AS |-> as]
Page(annots) == [Annots |-> [present |-> TRUE, items |-> annots]]
PageWithoutAnnots == [Annots |-> [present |-> FALSE, items |-> << >>]]
AcroForm(na) == [present |-> TRUE, NeedAppearances |-> na]
NoAcroForm == [present |-> FALSE, NeedAppearances |-> FALSE]

\* The content of a PDF file: its pages, its interactive-form root, and the names
\* PyPDF2's get_fields reports for it.
Pdf(pages, acro, names) ==
    [exists |-> TRUE, pages |-> pages, AcroForm |-> acro, fields |-> names]
Missing ==
    [exists |-> FALSE, pages |-> << >>, AcroForm |-> NoAcroForm, fields |-> << >>]

\* annotation.get('/Subtype') == '/Widget' and annotation.get('/T')
is_named_widget(annotation) ==
    annotation.Subtype = "Widget" /\ annotation.T.kind # "absent" /\ annotation.T.s # << >>

\* annotation['/T'][1:-1]
widget_field_name(annotation) == slice_1_m1(annotation.T.s)

\* update_annotation with the appearance state forgotten
update_annotation_value_only(annotation, field_value) ==
    IF field_value.type = "bool"
    THEN [annotation EXCEPT !.V = PdfName(IF field_value.b THEN Yes ELSE Off)]
    ELSE [annotation EXCEPT !.V = PdfStr(field_value.s)]

\* the annotation.update(...) calls
update_annotation(annotation, field_value) ==
    IF field_value.type = "bool"
    THEN IF field_value.b
         THEN [annotation EXCEPT !.V = PdfName(Yes), !.AS = PdfName(Yes)]
         ELSE [annotation EXCEPT !.V = PdfName(Off), !.AS = PdfName(Off)]
    ELSE [annotation EXCEPT !.V = PdfStr(field_value.s)]

\* fill_annotation that blanks the widgets the mapping does not name
fill_annotation_clearing(annotation, mapping) ==
    IF is_named_widget(annotation)
    THEN IF widget_field_name(annotation) \in DOMAIN mapping
         THEN [annotation EXCEPT !.V = IF mapping[widget_field_name(annotation)].type = "bool"
                                       THEN PdfName(IF mapping[widget_field_name(annotation)].b
                                                    THEN Yes ELSE Off)
                                       ELSE PdfStr(mapping[widget_field_name(annotation)].s),
                                 !.AS = IF mapping[widget_field_name(annotation)].type = "bool"
                                        THEN PdfName(IF mapping[widget_field_name(annotation)].b
                                                     THEN Yes ELSE Off)
                                        ELSE @]
         ELSE [annotation EXCEPT !.V = PdfStr(<< >>)]
    ELSE annotation

\* the body of "for annotation in annotations"
fill_annotation(annotation, mapping) ==
    IF is_named_widget(annotation) /\ widget_field_name(annotation) \in DOMAIN mapping
    THEN update_annotation(annotation, mapping[widget_field_name(annotation)])
    ELSE annotation

\* the body of "for page in template_pdf.pages"
fill_page(page, mapping) ==
    IF ~page.Annots.present
    THEN page
    ELSE [page EXCEPT !.Annots.items =
             [j \in 1..Len(page.Annots.items) |->
                 fill_annotation(page.Annots.items[j], mapping)]]

fill_pdf_form(template, mapping) ==
    [template EXCEPT
        !.pages = [j \in 1..Len(template.pages) |-> fill_page(template.pages[j], mapping)],
        !.AcroForm = IF template.AcroForm.present THEN AcroForm(TRUE) ELSE template.AcroForm]

-----------------------------------------------------------------------------
(* Dictionaries *)

EmptyDict == << >>
DictSet(d, key, value) ==
    [x \in (DOMAIN d) \cup {key} |-> IF x = key THEN value ELSE d[x]]

Range(s) == {s[j] : j \in DOMAIN s}

-----------------------------------------------------------------------------
(* Calls of the three functions on their own: the inputs *)

agree == <<"a","g","r","e","e">>
full_name == <<"f","u","l","l","_","n","a","m","e">>
date_signed == <<"d","a","t","e","_","s","i","g","n","e","d">>
is_approved == <<"i","s","_","a","p","p","r","o","v","e","d">>
JaneDoe == <<"J","a","n","e"," ","D","o","e">>

\* a PDF literal string (name)
Lit(name) == PdfStr(<<"(">> \o name \o <<")">>)

UnitFieldNames == {agree, full_name}

\* replies that are not a category in key form
OddClassifyReplies ==
    { <<"F","i","r","s","t"," ","N","a","m","e">>,
      <<" ","f","i","r","s","t","_","n","a","m","e","\n">>,
      <<"F","I","R","S","T","_","N","A","M","E">>,
      <<"c","u","r","r","e","n","c","y"," ","a","m","o","u","n","t">>,
      <<"z","i","p"," "," ","c","o","d","e">>,
      <<"B","o","o","l","e","a","n">>,
      <<"B","O","O","L","E","A","N"," ">>,
      <<"j","o","b","-","t","i","t","l","e">>,
      <<"x","y","z">>,
      <<>>,
      <<"a"," ","d","a","t","e">>,
      <<"v","e","h","i","c","l","e"," ","m","a","k","e">>,
      <<"T","e","x","t",".">>,
      <<"_">>,
      <<"d","a","t","e","_">> }

ClassifyOutcomes ==
    {ServiceError, NoneContent}
        \cup {Reply(c) : c \in Categories}
        \cup {Reply(c) : c \in OddClassifyReplies}

SynthesizeReplies ==
    { <<"Y","e","s">>,
      <<"O","f","f">>,
      <<"y","e","s">>,
      <<"\"","Y","e","s","\"">>,
      <<" ","Y","E","S","!"," ">>,
      <<"n","o">>,
      <<"e","y","e","s">>,
      <<"2","0","2","4","-","0","1","-","1","5">>,
      <<"\"","J","a","n","e"," ","D","o","e","\"">>,
      <<"1","2","3","4","5",".","0","0">>,
      <<>>,
      <<"\""," ","\"">> }

SynthesizeOutcomes == {ServiceError, NoneContent} \cup {Reply(c) : c \in SynthesizeReplies}

\* what get_field_type_from_ai can hand to get_data_from_ai, and the key forms
FieldTypes ==
    Categories \cup {get_field_type_from_ai(agree, o) : o \in ClassifyOutcomes}

AnnotationPool ==
    { Annotation("Widget", Lit(agree), NoObj, NoObj),
      Annotation("Widget", Lit(full_name), PdfStr(<<"o","l","d">>), PdfName(Off)),
      Annotation("Text", Lit(agree), PdfStr(<<"o","l","d">>), NoObj),
      Annotation("Widget", NoObj, PdfName(Off), PdfName(Off)) }

RECURSIVE SeqsUpTo(_, _)
SeqsUpTo(S, n) ==
    IF n = 0 THEN {<< >>}
    ELSE LET shorter == SeqsUpTo(S, n - 1)
         IN  shorter \cup {Append(q, x) : q \in shorter, x \in S}

UnitPages(maxAnnots) ==
    {PageWithoutAnnots} \cup {Page(a) : a \in SeqsUpTo(AnnotationPool, maxAnnots)}

UnitTemplates(maxPages, maxAnnots) ==
    {Pdf(p, a, << >>) : p \in SeqsUpTo(UnitPages(maxAnnots), maxPages),
                        a \in {NoAcroForm, AcroForm(FALSE)}}

UnitValues == {Bool(TRUE), Bool(FALSE), Str(JaneDoe)}

UnitMappings ==
    UNION {[D -> UnitValues] : D \in SUBSET UnitFieldNames}

NoCall == [op |-> "none", field_name |-> << >>, outcome |-> ServiceError,
           field_type |-> << >>, template |-> Missing, mapping |-> EmptyDict]

UnitCalls(maxPages, maxAnnots) ==
    {[NoCall EXCEPT !.op = "classify", !.field_name = n, !.outcome = o] :
        n \in UnitFieldNames, o \in ClassifyOutcomes}
    \cup
    {[NoCall EXCEPT !.op = "synthesize", !.field_name = n, !.field_type = c, !.outcome = o] :
        n \in UnitFieldNames, c \in FieldTypes, o \in SynthesizeOutcomes}
    \cup
    {[NoCall EXCEPT !.op = "render", !.template = tp, !.mapping = m] :
        tp \in UnitTemplates(maxPages, maxAnnots), m \in UnitMappings}

Pending == [done |-> FALSE, category |-> << >>, value |-> Str(<< >>), document |-> Missing]

-----------------------------------------------------------------------------
(* The run of main: its inputs *)

AllFieldNames == << date_signed, is_approved, full_name, agree >>

\* A form with the first n of AllFieldNames as its fields: one widget per field, a
\* widget that is no field of the form, a link, and a page without annotations.
FormOf(n) ==
    Pdf(<< Page([j \in 1..n |-> Annotation("Widget", Lit(AllFieldNames[j]), NoObj, NoObj)]
                \o << Annotation("Widget", Lit(<<"o","t","h","e","r">>),
                                 PdfStr(<<"o","l","d">>), PdfName(Off)),
                      Annotation("Link", NoObj, NoObj, NoObj) >>),
           PageWithoutAnnots >>,
        IF n = 0 THEN NoAcroForm ELSE AcroForm(FALSE),
        SubSeq(AllFieldNames, 1, n))

\* f"{args.output_prefix}-{i}.pdf"
output_filename(prefix, n) == prefix \o "-" \o ToString(n) \o ".pdf"

InputPaths == {"form.pdf", "out-1.pdf"}
Prefixes == {"out", "filled_document"}
\* the input file is or is not the first output file; the prefix is or is not the default
RunArguments ==
    {<<"form.pdf", "filled_document">>, <<"form.pdf", "out">>, <<"out-1.pdf", "out">>}
Paths == InputPaths \cup {output_filename(p, n) : p \in Prefixes, n \in 1..MaxOutputNumber}

\* What yaml.safe_load gives for the file at --config, as far as main looks at it:
\* None for an empty file, else a dict that may have an "openai" entry, itself
\* None or a dict that may have an "api_key" entry.
Config(exists, is_none, has_openai, openai_is_none, has_api_key, api_key) ==
    [exists |-> exists, is_none |-> is_none, has_openai |-> has_openai,
     openai_is_none |-> openai_is_none, has_api_key |-> has_api_key, api_key |-> api_key]

ConfigMissing == Config(FALSE, FALSE, FALSE, FALSE, FALSE, "")
ConfigEmptyFile == Config(TRUE, TRUE, FALSE, FALSE, FALSE, "")
ConfigNoOpenai == Config(TRUE, FALSE, FALSE, FALSE, FALSE, "")
ConfigOpenaiEmpty == Config(TRUE, FALSE, TRUE, TRUE, FALSE, "")
ConfigNoApiKey == Config(TRUE, FALSE, TRUE, FALSE, FALSE, "")
ConfigEmptyApiKey == Config(TRUE, FALSE, TRUE, FALSE, TRUE, "")
ConfigOk == Config(TRUE, FALSE, TRUE, FALSE, TRUE, "sk-test")

Configs == {ConfigMissing, ConfigEmptyFile, ConfigNoOpenai, ConfigOpenaiEmpty,
            ConfigNoApiKey, ConfigEmptyApiKey, ConfigOk}

\* the generation service's behaviours during a run
RunClassifyOutcomes == {ServiceError, Reply(BOOLEAN_)}
RunSynthesizeOutcomes == {ServiceError, Reply(Yes)}

NoServiceCall == [op |-> "none", field_name |-> << >>, field_type |-> << >>, failed |-> FALSE]

Calls == (1..MaxOutputNumber) \X (1..MaxFields)

-----------------------------------------------------------------------------
(* main, lines 98-108: the outcome of loading the configuration *)

\* "ok", "error" (FileNotFoundError or ValueError: printed, return), or "raise"
\* (an exception the except clause does not name)
configure(cf) ==
    IF ~cf.exists THEN "error"                       \* load_config raises FileNotFoundError
    ELSE IF cf.is_none THEN "raise"                  \* None.get: AttributeError
    ELSE IF cf.has_openai /\ cf.openai_is_none THEN "raise"   \* None.get: AttributeError
    ELSE IF ~cf.has_openai \/ ~cf.has_api_key \/ cf.api_key = "" THEN "error"  \* ValueError
    ELSE "ok"

UnitIdle == uIn = NoCall /\ uOut = Pending

Init ==
    /\ pc = "start"
    /\ config_file \in Configs
    /\ \E a \in RunArguments : input_file = a[1] /\ output_prefix = a[2]
    /\ output_number \in (-1)..MaxOutputNumber
    /\ \E n \in 0..MaxFields, present \in BOOLEAN :
          fs = [p \in Paths |-> IF p = input_file /\ present THEN FormOf(n) ELSE Missing]
    /\ fs0 = fs
    /\ fields = << >>
    /\ i = 0
    /\ k = 0
    /\ field_type = << >>
    /\ data_to_fill = EmptyDict
    /\ last_call = NoServiceCall
    /\ n_classify = [c \in Calls |-> 0]
    /\ n_synthesize = [c \in Calls |-> 0]
    /\ written = << >>
    /\ n_render = 0
    /\ template_pdf = Missing
    /\ doc_types = EmptyDict
    /\ UnitIdle

\* lines 98-108
Configure ==
    /\ pc = "start"
    /\ pc' = CASE configure(config_file) = "ok" -> "check_input"
               [] configure(config_file) = "error" -> "returned_error"
               [] OTHER -> "crashed"
    /\ UNCHANGED << config_file, fs, input_file, output_prefix, output_number, fields,
                    i, k, field_type, data_to_fill, last_call, n_classify, n_synthesize,
                    written, n_render, template_pdf, doc_types, fs0, uIn, uOut >>

\* lines 110-112
CheckInput ==
    /\ pc = "check_input"
    /\ pc' = IF fs[input_file].exists THEN "read_fields" ELSE "returned_error"
    /\ UNCHANGED << config_file, fs, input_file, output_prefix, output_number, fields,
                    i, k, field_type, data_to_fill, last_call, n_classify, n_synthesize,
                    written, n_render, template_pdf, doc_types, fs0, uIn, uOut >>

\* ReadFields without the stop on an empty field list
ReadFields_no_stop ==
    /\ pc = "read_fields"
    /\ fields' = fs[input_file].fields
    /\ pc' = "for_i"
    /\ i' = 1
    /\ UNCHANGED << config_file, fs, input_file, output_prefix, output_number,
                    k, field_type, data_to_fill, last_call, n_classify, n_synthesize,
                    written, n_render, template_pdf, doc_types, fs0, uIn, uOut >>

\* lines 114-123: enumerate the fields, stop when there are none, else enter the loop
ReadFields ==
    /\ pc = "read_fields"
    /\ fields' = fs[input_file].fields
    /\ IF fields' = << >>
       THEN pc' = "returned_no_fields" /\ i' = i
       ELSE pc' = "for_i" /\ i' = 1
    /\ UNCHANGED << config_file, fs, input_file, output_prefix, output_number,
                    k, field_type, data_to_fill, last_call, n_classify, n_synthesize,
                    written, n_render, template_pdf, doc_types, fs0, uIn, uOut >>

\* lines 123-126: the loop test, and the fresh mapping of a document
NextDocument ==
    /\ pc = "for_i"
    /\ IF i <= output_number
       THEN /\ pc' = IF Len(fields) = 0 THEN "render" ELSE "classify"
            /\ data_to_fill' = EmptyDict /\ k' = 1 /\ doc_types' = EmptyDict
       ELSE pc' = "returned" /\ UNCHANGED << data_to_fill, k, doc_types >>
    /\ UNCHANGED << config_file, fs, input_file, output_prefix, output_number, fields,
                    i, field_type, last_call, n_classify, n_synthesize,
                    written, n_render, template_pdf, fs0, uIn, uOut >>

\* Classify that asks a second time when the first call fails
Classify_retry ==
    /\ pc = "classify"
    /\ \E outcome \in RunClassifyOutcomes :
          /\ field_type' = get_field_type_from_ai(fields[k], outcome)
          /\ last_call' = [op |-> "classify", field_name |-> fields[k],
                           field_type |-> << >>, failed |-> outcome.kind # "text"]
          /\ pc' = IF outcome.kind # "text" /\ n_classify[<<i, k>>] = 0
                   THEN "classify" ELSE "synthesize"
    /\ n_classify' = [n_classify EXCEPT ![<<i, k>>] = @ + 1]
    /\ doc_types' = DictSet(doc_types, fields[k], field_type')
    /\ UNCHANGED << config_file, fs, input_file, output_prefix, output_number, fields,
                    i, k, data_to_fill, n_synthesize,
                    written, n_render, template_pdf, fs0, uIn, uOut >>

\* lines 127-128
Classify ==
    /\ pc = "classify"
    /\ \E outcome \in RunClassifyOutcomes :
          /\ field_type' = get_field_type_from_ai(fields[k], outcome)
          /\ last_call' = [op |-> "classify", field_name |-> fields[k],
                           field_type |-> << >>, failed |-> outcome.kind # "text"]
    /\ n_classify' = [n_classify EXCEPT ![<<i, k>>] = @ + 1]
    /\ doc_types' = DictSet(doc_types, fields[k], field_type')
    /\ pc' = "synthesize"
    /\ UNCHANGED << config_file, fs, input_file, output_prefix, output_number, fields,
                    i, k, data_to_fill, n_synthesize,
                    written, n_render, template_pdf, fs0, uIn, uOut >>

\* Synthesize whose service error is not caught and ends the run
Synthesize_uncaught ==
    /\ pc = "synthesize"
    /\ \E outcome \in RunSynthesizeOutcomes :
          /\ data_to_fill' = DictSet(data_to_fill, fields[k],
                                     get_data_from_ai(fields[k], field_type, outcome))
          /\ last_call' = [op |-> "synthesize", field_name |-> fields[k],
                           field_type |-> field_type, failed |-> outcome.kind # "text"]
          /\ IF outcome.kind = "error"
             THEN pc' = "crashed" /\ k' = k
             ELSE IF k < Len(fields)
                  THEN pc' = "classify" /\ k' = k + 1
                  ELSE pc' = "render" /\ k' = k
    /\ n_synthesize' = [n_synthesize EXCEPT ![<<i, k>>] = @ + 1]
    /\ UNCHANGED << config_file, fs, input_file, output_prefix, output_number, fields,
                    i, field_type, n_classify,
                    written, n_render, template_pdf, doc_types, fs0, uIn, uOut >>

\* lines 130-133, and the step of "for field_name in fields.keys()"
Synthesize ==
    /\ pc = "synthesize"
    /\ \E outcome \in RunSynthesizeOutcomes :
          /\ data_to_fill' = DictSet(data_to_fill, fields[k],
                                     get_data_from_ai(fields[k], field_type, outcome))
          /\ last_call' = [op |-> "synthesize", field_name |-> fields[k],
                           field_type |-> field_type, failed |-> outcome.kind # "text"]
    /\ n_synthesize' = [n_synthesize EXCEPT ![<<i, k>>] = @ + 1]
    /\ IF k < Len(fields)
       THEN pc' = "classify" /\ k' = k + 1
       ELSE pc' = "render" /\ k' = k
    /\ UNCHANGED << config_file, fs, input_file, output_prefix, output_number, fields,
                    i, field_type, n_classify,
                    written, n_render, template_pdf, doc_types, fs0, uIn, uOut >>

\* lines 135-138: fill_pdf_form reloads args.input_file, PdfWriter writes the result
WriteDocument ==
    /\ pc = "render"
    /\ template_pdf' = fs[input_file]
    /\ n_render' = n_render + 1
    /\ fs' = [fs EXCEPT ![output_filename(output_prefix, i)] =
                             fill_pdf_form(fs[input_file], data_to_fill)]
    /\ written' = Append(written, output_filename(output_prefix, i))
    /\ i' = i + 1
    /\ pc' = "for_i"
    /\ UNCHANGED << config_file, input_file, output_prefix, output_number, fields,
                    k, field_type, data_to_fill, last_call, n_classify, n_synthesize,
                    doc_types, fs0, uIn, uOut >>

Next ==
    \/ Configure
    \/ CheckInput
    \/ ReadFields
    \/ NextDocument
    \/ Classify
    \/ Synthesize
    \/ WriteDocument

Spec == Init /\ [][Next]_vars

-----------------------------------------------------------------------------
(* The three functions called on their own *)

MainIdle ==
    /\ pc = "unit"
    /\ config_file = ConfigMissing
    /\ input_file = "form.pdf"
    /\ output_prefix = "out"
    /\ output_number = 0
    /\ fs = [p \in Paths |-> Missing]
    /\ fs0 = fs
    /\ fields = << >>
    /\ i = 0
    /\ k = 0
    /\ field_type = << >>
    /\ data_to_fill = EmptyDict
    /\ last_call = NoServiceCall
    /\ n_classify = [c \in Calls |-> 0]
    /\ n_synthesize = [c \in Calls |-> 0]
    /\ written = << >>
    /\ n_render = 0
    /\ template_pdf = Missing
    /\ doc_types = EmptyDict

UnitInit ==
    /\ MainIdle
    /\ uIn \in UnitCalls(MaxPages, MaxAnnots)
    /\ uOut = Pending

CallClassify ==
    /\ uIn.op = "classify" /\ ~uOut.done
    /\ uOut' = [Pending EXCEPT !.done = TRUE,
                               !.category = get_field_type_from_ai(uIn.field_name, uIn.outcome)]
    /\ UNCHANGED << mainVars, uIn >>

CallSynthesize ==
    /\ uIn.op = "synthesize" /\ ~uOut.done
    /\ uOut' = [Pending EXCEPT !.done = TRUE,
                               !.value = get_data_from_ai(uIn.field_name, uIn.field_type,
                                                          uIn.outcome)]
    /\ UNCHANGED << mainVars, uIn >>

CallRender ==
    /\ uIn.op = "render" /\ ~uOut.done
    /\ uOut' = [Pending EXCEPT !.done = TRUE,
                               !.document = fill_pdf_form(uIn.template, uIn.mapping)]
    /\ UNCHANGED << mainVars, uIn >>

UnitNext ==
    \/ CallClassify
    \/ CallSynthesize
    \/ CallRender

UnitSpec == UnitInit /\ [][UnitNext]_vars

-----------------------------------------------------------------------------
(* Properties of the three functions called on their own (UnitSpec) *)

\* C1: whatever the generation service does, get_field_type_from_ai returns a
\* member of the category vocabulary in its key form, and nothing else.
C1_ClassifyInVocabulary ==
    (uIn.op = "classify" /\ uOut.done) => uOut.category \in Categories

\* C2: get_data_from_ai returns a bool when the category is boolean and a str
\* when it is any other category, whatever the generation service does.
C2_SynthesizeType ==
    (uIn.op = "synthesize" /\ uOut.done) =>
        (uOut.value.type = "bool" <=> uIn.field_type = BOOLEAN_)

\* the annotations of a template, by page and position
Places(template) ==
    {<<p, a>> \in (1..Len(template.pages)) \X (1..MaxAnnots + 1) :
        a <= Len(template.pages[p].Annots.items)}
At(template, place) == template.pages[place[1]].Annots.items[place[2]]

SameShape(template, document) ==
    /\ Len(document.pages) = Len(template.pages)
    /\ \A p \in 1..Len(template.pages) :
          /\ document.pages[p].Annots.present = template.pages[p].Annots.present
          /\ Len(document.pages[p].Annots.items) = Len(template.pages[p].Annots.items)

\* the place holds a widget with a field name that the mapping has as a key
Mapped(template, mapping, place) ==
    /\ At(template, place).Subtype = "Widget"
    /\ At(template, place).T.kind = "str"
    /\ Len(At(template, place).T.s) >= 2
    /\ SubSeq(At(template, place).T.s, 2, Len(At(template, place).T.s) - 1) \in DOMAIN mapping

ValueAt(template, mapping, place) ==
    mapping[SubSeq(At(template, place).T.s, 2, Len(At(template, place).T.s) - 1)]

\* C7: in the document fill_pdf_form returns, every widget whose field name maps
\* to a boolean has V and AS both set to the name Yes when the boolean is true
\* and both set to the name Off when it is false.
C7_BooleanSetsValueAndAppearance ==
    (uIn.op = "render" /\ uOut.done) =>
        /\ SameShape(uIn.template, uOut.document)
        /\ \A place \in Places(uIn.template) :
              (Mapped(uIn.template, uIn.mapping, place)
                  /\ ValueAt(uIn.template, uIn.mapping, place).type = "bool")
              => LET token == IF ValueAt(uIn.template, uIn.mapping, place).b THEN Yes ELSE Off
                 IN  /\ At(uOut.document, place).V = [kind |-> "name", s |-> token]
                     /\ At(uOut.document, place).AS = [kind |-> "name", s |-> token]

\* C7 witness: a widget that had V "old" and AS Off was rendered with the boolean
\* true and now has Yes in both.
C7_Witness ==
    /\ uIn.op = "render" /\ uOut.done
    /\ \E place \in Places(uIn.template) :
          /\ Mapped(uIn.template, uIn.mapping, place)
          /\ ValueAt(uIn.template, uIn.mapping, place) = Bool(TRUE)
          /\ At(uIn.template, place).V.kind = "str"
          /\ At(uIn.template, place).AS = PdfName(Off)
          /\ At(uOut.document, place).V = PdfName(Yes)
          /\ At(uOut.document, place).AS = PdfName(Yes)

\* C8: in the document fill_pdf_form returns, every annotation that is not a
\* widget named by a key of the mapping equals the template's annotation.
C8_UnmappedAnnotationsUntouched ==
    (uIn.op = "render" /\ uOut.done) =>
        /\ SameShape(uIn.template, uOut.document)
        /\ \A place \in Places(uIn.template) :
              ~Mapped(uIn.template, uIn.mapping, place)
                  => At(uOut.document, place) = At(uIn.template, place)

\* C8 witness: a render that changed one widget and left alone, on the same
\* page, a named widget with a value that the mapping has no key for.
C8_Witness ==
    /\ uIn.op = "render" /\ uOut.done
    /\ \E p1 \in Places(uIn.template), p2 \in Places(uIn.template) :
          /\ p1[1] = p2[1]
          /\ Mapped(uIn.template, uIn.mapping, p1)
          /\ At(uOut.document, p1) # At(uIn.template, p1)
          /\ ~Mapped(uIn.template, uIn.mapping, p2)
          /\ At(uIn.template, p2).Subtype = "Widget"
          /\ At(uIn.template, p2).T.kind = "str"
          /\ At(uIn.template, p2).V.kind = "str"
          /\ At(uOut.document, p2) = At(uIn.template, p2)

-----------------------------------------------------------------------------
(* Properties of a run of main (Spec) *)

\* the configuration file exists and supplies a non-empty API key
ApiKeySupplied ==
    /\ config_file.exists /\ ~config_file.is_none
    /\ config_file.has_openai /\ ~config_file.openai_is_none
    /\ config_file.has_api_key /\ config_file.api_key # ""

InputExists == fs0[input_file].exists

RECURSIVE SumOver(_, _)
SumOver(f, S) ==
    IF S = {} THEN 0
    ELSE LET x == CHOOSE y \in S : TRUE IN f[x] + SumOver(f, S \ {x})

TotalCalls == SumOver(n_classify, Calls) + SumOver(n_synthesize, Calls)

\* the number of indices of range(1, output_number + 1)
NumDocs == IF output_number < 0 THEN 0 ELSE output_number

\* C3: given a usable configuration and an input form with at least one field,
\* and a count N >= 0, the run never stops early whatever calls fail: the files
\* written are prefix-1.pdf, prefix-2.pdf, ... in order, no other path of the
\* file system changes, and when main returns exactly N have been written.
C3_ExactlyNFiles ==
    (ApiKeySupplied /\ InputExists /\ fs0[input_file].fields # << >> /\ output_number >= 0) =>
        /\ pc \notin {"crashed", "returned_error", "returned_no_fields"}
        /\ Len(written) <= output_number
        /\ \A j \in 1..Len(written) :
              written[j] = output_prefix \o "-" \o ToString(j) \o ".pdf"
        /\ \A p \in Paths : IF p \in Range(written) THEN fs[p].exists ELSE fs[p] = fs0[p]
        /\ (pc = "returned" => Len(written) = output_number)

\* C3 witness: a run of two documents returned with both files written, although
\* its last service call failed.
C3_Witness ==
    /\ pc = "returned" /\ ApiKeySupplied /\ InputExists
    /\ output_number = 2 /\ Len(written) = 2
    /\ last_call.failed
    /\ fs[output_prefix \o "-2.pdf"].exists

\* C4: every document is rendered from the input file as it was when the run
\* started, and the input file is never changed.
C4_CleanTemplate ==
    /\ n_render > 0 => template_pdf = fs0[input_file]
    /\ fs[input_file] = fs0[input_file]

\* C5: when the configuration is missing or supplies no API key, or the input
\* file is missing, the run returns after a message: it raises nothing, calls
\* the generation service never and writes no file.
C5_FatalStopsCleanly ==
    (~ApiKeySupplied \/ ~InputExists) =>
        /\ pc \in {"start", "check_input", "returned_error"}
        /\ TotalCalls = 0 /\ last_call.op = "none"
        /\ written = << >> /\ fs = fs0

\* C6: in every document written, each widget of a field that was classified
\* boolean for that document has V and AS set to the same name, Yes or Off.
C6_BooleanFieldsAreYesOrOff ==
    (pc = "for_i" /\ n_render > 0) =>
        LET document == fs[written[Len(written)]]
        IN  \A place \in {<<p, a>> \in (1..Len(document.pages)) \X (1..MaxFields + 3) :
                             a <= Len(document.pages[p].Annots.items)} :
               LET annotation == document.pages[place[1]].Annots.items[place[2]]
               IN  (/\ annotation.Subtype = "Widget"
                    /\ annotation.T.kind = "str"
                    /\ slice_1_m1(annotation.T.s) \in DOMAIN doc_types
                    /\ doc_types[slice_1_m1(annotation.T.s)] = BOOLEAN_)
                   => /\ annotation.V = annotation.AS
                      /\ annotation.V \in {PdfName(Yes), PdfName(Off)}

\* C9: given a usable configuration and an input form without fields, the run
\* stops at the enumeration with no error: no file is written, the file system
\* is unchanged and the generation service is never called.
C9_NoFieldsStopsQuietly ==
    (ApiKeySupplied /\ InputExists /\ fs0[input_file].fields = << >>) =>
        /\ pc \in {"start", "check_input", "read_fields", "returned_no_fields"}
        /\ written = << >> /\ fs = fs0 /\ n_render = 0
        /\ TotalCalls = 0 /\ last_call.op = "none"

\* C9 witness: such a run, asked for two documents, has stopped.
C9_Witness ==
    /\ pc = "returned_no_fields"
    /\ ApiKeySupplied /\ InputExists /\ fs0[input_file].fields = << >>
    /\ output_number = 2

Before(b, c) == b[1] < c[1] \/ (b[1] = c[1] /\ b[2] < c[2])
RealCalls == {c \in Calls : c[1] <= output_number /\ c[2] <= Len(fields)}

C10_State ==
    /\ \A c \in Calls :
          /\ n_classify[c] <= 1
          /\ n_synthesize[c] <= n_classify[c]
          /\ n_classify[c] > 0 =>
                /\ c \in RealCalls
                /\ \A b \in RealCalls : Before(b, c) => n_synthesize[b] = 1
                /\ n_render >= c[1] - 1
    /\ \A d \in 1..n_render : \A f \in 1..Len(fields) : n_synthesize[<<d, f>>] = 1
    /\ n_render = Len(written)
    /\ n_render <= NumDocs
    /\ last_call.op = "synthesize" => last_call.field_type = field_type
    /\ pc = "returned" =>
          /\ n_render = NumDocs
          /\ TotalCalls = 2 * Len(fields) * NumDocs

C10_Step ==
    /\ n_classify' # n_classify =>
          /\ last_call.op \in {"none", "synthesize"}
          /\ n_synthesize' = n_synthesize /\ n_render' = n_render
    /\ n_synthesize' # n_synthesize =>
          /\ last_call.op = "classify"
          /\ last_call'.op = "synthesize"
          /\ last_call'.field_name = last_call.field_name
          /\ last_call'.field_type = field_type
          /\ n_classify' = n_classify /\ n_render' = n_render
    /\ n_render' # n_render =>
          /\ n_render' = n_render + 1
          /\ DOMAIN data_to_fill = Range(fields)
          /\ n_classify' = n_classify /\ n_synthesize' = n_synthesize

\* C10: per document and per field there is one classify call and then one
\* synthesize call that is given the type classify returned, with no second
\* attempt; fields and documents are processed in order, one at a time;
\* fill_pdf_form runs once per document, after the mapping has an entry for every
\* field; a run that goes through the loop makes 2 x fields x documents calls.
C10_OneRoundTripPerField == [](C10_State) /\ [][C10_Step]_vars

\* C10 witness: a run of two documents over two fields has returned, with a
\* failed call as its last one.
C10_Witness ==
    /\ pc = "returned" /\ Len(fields) = 2 /\ output_number = 2
    /\ n_render = 2 /\ TotalCalls = 8
    /\ last_call.op = "synthesize" /\ last_call.failed

====
